---- MODULE Spec2Model ----
(***************************************************************************)
(* A model of monitor/lib/utils.py of PyMonitorLib: the sub-command        *)
(* registry (class Callbacks), the process runner (Command) and the        *)
(* readiness waiter (Select) and the identity, privilege and descriptor     *)
(* utilities.  Each component has its own specification;                   *)
(* the variables of the other components stay at their idle values.        *)
(***************************************************************************)
EXTENDS Integers, Sequences, FiniteSets, TLC

VARIABLES
    \* ---- class Callbacks -------------------------------------------------
    command,      \* self.command: the reserved primary command name
    callbacks,    \* self.callbacks: name -> <<>> (no entry) or <<handler>>
    parsers,      \* self.parsers: <<>> (None) or <<tree>>, the host sub-parsers object
    trees,        \* host parser trees: tree -> name -> number of sub-parsers of that name
    config,       \* the <<tree, name>> sub-parsers that carry the --config option
    last,         \* outcome of the latest Register call
    \* ---- Command ---------------------------------------------------------
    stderr,       \* the parameter 'stderr': merge the child's error stream into its output
    pc,           \* position of the runner inside Command
    process,      \* the local 'process': <<>> (None) or <<"popen">>
    output,       \* the local list 'output'
    result,       \* what Command gave its caller: a returned pair or a raised error
    intr,         \* where KeyboardInterrupts arrived during this call
    child,        \* "none" | "refused" (the OS did not create it) | "running" | "exited"
    exitcode,     \* exit status of the child once it has exited
    script,       \* what the child still has to write: [stream, text] items
    written,      \* lines the child has written to the capture stream so far
    pipe,         \* lines buffered in the pipe between child and runner
    childOpen,    \* the child holds the write end of the pipe
    holderOpen,   \* another process that inherited the write end still holds it
    \* ---- Select ----------------------------------------------------------
    spc,          \* position inside Select
    rds,          \* reader channels (a list)
    wrts,         \* writer channels (a list)
    timeout,      \* requested timeout, in ticks
    now,          \* the wall clock, in ticks
    start,        \* local 'start'
    end,          \* local 'end'
    res,          \* local 'res': None or <<list of ready events>>
    selector,     \* "none" | "open" | "closed"
    registered,   \* the <<channel, event>> pairs registered with the selector, in order
    pending,      \* how the try block was left: "", "normal", "oserror", "interrupt", an exception
    sresult,      \* what Select gave its caller
    blocked,      \* total time spent blocked inside selector.select
    readyAt,      \* the instant the registered channels become (and stay) ready; -1: never
    \* ---- identity, privilege and descriptor utilities ----------------------
    osname,       \* os.name: "posix" or "nt"
    uid,          \* user id of the current process
    gid,          \* group id of the current process
    fdOpen,       \* handle -> the descriptor behind it is open
    ocall         \* the latest utility call and what it gave its caller

regvars == <<command, callbacks, parsers, trees, config, last>>
cmdvars == <<stderr, pc, process, output, result, intr, child, exitcode, script, written,
             pipe, childOpen, holderOpen>>
selvars == <<spc, rds, wrts, timeout, now, start, end, res, selector, registered,
             pending, sresult, blocked, readyAt>>
osvars == <<osname, uid, gid, fdOpen, ocall>>
vars == <<regvars, cmdvars, selvars, osvars>>

(***************************************************************************)
(* Bounds of the model.                                                    *)
(***************************************************************************)
MaxTrees == 2      \* host parser trees handed to the entry point
MaxLines == 3      \* lines a child writes
PipeCap == 2       \* lines the pipe holds before the child blocks
MaxTimeout == 3    \* largest requested timeout, in ticks
MaxNow == 4        \* latest instant up to which scheduling delays are modelled
MaxChans == 1      \* channels per reader / writer list

\* An absent value (Python's None) is the empty sequence, a present one <<v>>.
None == <<>>
Some(v) == <<v>>

(***************************************************************************)
(* class Callbacks                                                         *)
(***************************************************************************)
Names == {"run", "status", "stop"}
Handlers == {"h1", "h2", "notcallable"}
TreeIds == 1..MaxTrees

\* callable(callback)
Callable(h) == h \in {"h1", "h2"}

NoCall == [op |-> "none", name |-> "", handler |-> "", accept |-> TRUE,
           outcome |-> "none", ret |-> None]

\* Callbacks.__init__(command)
RegInit ==
    /\ command \in Names
    /\ callbacks = [n \in Names |-> None]
    /\ parsers = None
    /\ trees = [t \in TreeIds |-> [n \in Names |-> 0]]
    /\ config = {}
    /\ last = NoCall

\* Callbacks.__call__(parsers, callback): binds the host sub-parsers object; the
\* callback's Register calls are the Register steps that follow.
Call(t) ==
    /\ UNCHANGED <<cmdvars, selvars, osvars>>
    /\ parsers' = Some(t)
    /\ last' = [NoCall EXCEPT !.op = "call", !.outcome = "ok"]
    /\ UNCHANGED <<command, callbacks, trees, config>>

RegisteredNever(name) == FALSE

\* The loop over self.callbacks.items(): is name already a key?
Registered(name) == \E k \in Names : callbacks[k] # None /\ name = k

RejectionNoReserved(name, callback) ==
    IF ~Callable(callback) THEN "not callable"
    ELSE IF Registered(name) THEN "duplicate"
    ELSE ""

\* The checks that reject a registration, in the order of the code.
Rejection(name, callback) ==
    IF ~Callable(callback) THEN "not callable"
    ELSE IF name = command THEN "reserved"
    ELSE IF Registered(name) THEN "duplicate"
    ELSE ""

AddConfigNever(t, name) == config

\* parser.add_argument('--config', ...) on the new sub-parser
AddConfig(t, name) == config \cup {<<t, name>>}

\* Callbacks.Register(name, callback, **kwargs); accept: the host parser accepts
\* add_parser(name, **kwargs).
Register(name, callback, accept) ==
    /\ UNCHANGED <<cmdvars, selvars, osvars>>
    /\ UNCHANGED <<command, parsers>>
    /\ LET call == [op |-> "register", name |-> name, handler |-> callback,
                    accept |-> accept, outcome |-> "", ret |-> None] IN
       IF Rejection(name, callback) # ""
       THEN /\ last' = [call EXCEPT !.outcome = "ExecutorError"]
            /\ UNCHANGED <<callbacks, trees, config>>
       ELSE /\ callbacks' = [callbacks EXCEPT ![name] = Some(callback)]
            /\ IF parsers = None
               THEN \* None has no add_parser
                    /\ last' = [call EXCEPT !.outcome = "AttributeError"]
                    /\ UNCHANGED <<trees, config>>
               ELSE IF ~accept
               THEN \* add_parser raises
                    /\ last' = [call EXCEPT !.outcome = "ParserError"]
                    /\ UNCHANGED <<trees, config>>
               ELSE LET t == parsers[1] IN
                    /\ trees' = [trees EXCEPT ![t][name] = @ + 1]
                    /\ config' = AddConfig(t, name)
                    /\ last' = [call EXCEPT !.outcome = "ok", !.ret = Some(<<t, name>>)]

RegNext ==
    \/ \E t \in TreeIds : Call(t)
    \/ \E n \in Names, h \in Handlers, a \in BOOLEAN : Register(n, h, a)

(***************************************************************************)
(* Command: the process runner                                             *)
(***************************************************************************)
\* A line is its characters without the line terminator; "s" is a blank.
Lines == {<<>>, <<"a">>, <<"s", "b">>}
ExitCodes == {0, 1}

\* What a child writes: lines on its standard output, or on its error stream.
Items == {[stream |-> "out", text |-> l] : l \in Lines}
             \cup {[stream |-> "err", text |-> <<"e">>]}

RECURSIVE LStrip(_)
LStrip(l) == IF l # <<>> /\ Head(l) = "s" THEN LStrip(Tail(l)) ELSE l

RECURSIVE RStrip(_)
RStrip(l) ==
    IF l # <<>> /\ l[Len(l)] = "s" THEN RStrip(SubSeq(l, 1, Len(l) - 1)) ELSE l

\* line.strip()
Strip(l) == RStrip(LStrip(l))

Append1Raw(out, line) == IF Len(Strip(line)) > 0 THEN Append(out, line) ELSE out

\* if len(line.strip()) > 0: output.append(line.strip())
Append1(out, line) == IF Len(Strip(line)) > 0 THEN Append(out, Strip(line)) ELSE out

RECURSIVE Collect(_)
\* What draining every line of ls appends to an empty output.
Collect(ls) ==
    IF ls = <<>> THEN <<>>
    ELSE Append1(Collect(SubSeq(ls, 1, Len(ls) - 1)), ls[Len(ls)])

RECURSIVE SeqsUpTo(_, _)
SeqsUpTo(S, n) ==
    IF n = 0 THEN {<<>>}
    ELSE LET shorter == SeqsUpTo(S, n - 1) IN
         shorter \cup {Append(q, x) : q \in shorter, x \in S}

NoResult == [kind |-> "none", code |-> None, output |-> <<>>]

\* Entry of Command: process = None, output = [].  The child's program (the lines
\* it writes) and whether some other process inherits the pipe's write end are
\* the environment's.
CmdInit ==
    /\ stderr \in BOOLEAN
    /\ pc = "spawn"
    /\ process = None
    /\ output = <<>>
    /\ result = NoResult
    /\ intr = {}
    /\ child = "none"
    /\ exitcode = 0
    /\ script \in SeqsUpTo(Items, MaxLines)
    /\ written = <<>>
    /\ pipe = <<>>
    /\ childOpen = FALSE
    /\ holderOpen \in BOOLEAN

\* stderr=subprocess.STDOUT if stderr else os.devnull: os.devnull is a path, a
\* str, which Popen cannot use as a stream.
StderrUsable == stderr

\* subprocess.Popen(...) succeeds: the child runs and holds the pipe's write end;
\* its error stream is the same pipe.
Popen ==
    /\ UNCHANGED <<regvars, selvars, stderr, osvars>>
    /\ pc = "spawn"
    /\ StderrUsable
    /\ process' = Some("popen")
    /\ child' = "running"
    /\ childOpen' = TRUE
    /\ pc' = "poll"
    /\ UNCHANGED <<output, result, intr, exitcode, script, written, pipe, holderOpen>>

\* The OSError is caught and a sentinel returned.
PopenFailsSwallowed ==
    /\ UNCHANGED <<regvars, selvars, stderr, osvars>>
    /\ pc = "spawn"
    /\ StderrUsable
    /\ pc' = "done"
    /\ child' = "refused"
    /\ result' = [kind |-> "returned", code |-> None, output |-> <<>>]
    /\ holderOpen' = FALSE
    /\ UNCHANGED <<process, output, intr, exitcode, script, written, pipe, childOpen>>

\* The OS refuses to create the child: subprocess.Popen(...) raises OSError,
\* which Command re-raises.
PopenFails ==
    /\ UNCHANGED <<regvars, selvars, stderr, osvars>>
    /\ pc = "spawn"
    /\ StderrUsable
    /\ pc' = "raised"
    /\ child' = "refused"
    /\ result' = [kind |-> "OSError", code |-> None, output |-> <<>>]
    /\ holderOpen' = FALSE
    /\ UNCHANGED <<process, output, intr, exitcode, script, written, pipe, childOpen>>

\* stderr is false: Popen is handed the str os.devnull as the error stream and
\* raises AttributeError (a str has no fileno) before any process is created;
\* no except clause of Command catches it.
PopenBadStderr ==
    /\ UNCHANGED <<regvars, selvars, stderr, osvars>>
    /\ pc = "spawn"
    /\ ~StderrUsable
    /\ pc' = "raised"
    /\ result' = [kind |-> "AttributeError", code |-> None, output |-> <<>>]
    /\ holderOpen' = FALSE
    /\ UNCHANGED <<process, output, intr, child, exitcode, script, written, pipe, childOpen>>

\* process.poll(): the exit status if the child has exited, else None.
PollValue == IF child = "exited" THEN Some(exitcode) ELSE None

\* The runner waits for the child to exit before it reads anything.
PollWaits ==
    /\ UNCHANGED <<regvars, selvars, stderr, osvars>>
    /\ pc = "poll"
    /\ child = "exited"
    /\ pc' = "ret"
    /\ UNCHANGED <<process, output, result, intr, child, exitcode, script, written,
                   pipe, childOpen, holderOpen>>

\* if process.poll() is not None: break
Poll ==
    /\ UNCHANGED <<regvars, selvars, stderr, osvars>>
    /\ pc = "poll"
    /\ pc' = IF PollValue # None THEN "ret" ELSE "read"
    /\ UNCHANGED <<process, output, result, intr, child, exitcode, script, written,
                   pipe, childOpen, holderOpen>>

\* process.stdout.readline() returns a line; the loop body appends it.
Readline ==
    /\ UNCHANGED <<regvars, selvars, stderr, osvars>>
    /\ pc = "read"
    /\ pipe # <<>>
    /\ output' = Append1(output, Head(pipe))
    /\ pipe' = Tail(pipe)
    /\ UNCHANGED <<pc, process, result, intr, child, exitcode, script, written,
                   childOpen, holderOpen>>

\* End of file: nothing buffered and no process holds the write end.
AtEOF == pipe = <<>> /\ ~childOpen /\ ~holderOpen

\* process.stdout.readline() returns b'': iter() stops, back to the poll.
ReadlineEOF ==
    /\ UNCHANGED <<regvars, selvars, stderr, osvars>>
    /\ pc = "read"
    /\ AtEOF
    /\ pc' = "poll"
    /\ UNCHANGED <<process, output, result, intr, child, exitcode, script, written,
                   pipe, childOpen, holderOpen>>

\* No except clause: the KeyboardInterrupt reaches the caller.
InterruptPropagates ==
    /\ UNCHANGED <<regvars, selvars, stderr, osvars>>
    /\ pc \in {"spawn", "poll", "read"}
    /\ intr' = intr \cup {IF pc = "spawn" THEN "spawn" ELSE "wait"}
    /\ pc' = "raised"
    /\ result' = [kind |-> "KeyboardInterrupt", code |-> None, output |-> <<>>]
    /\ holderOpen' = IF pc = "spawn" THEN FALSE ELSE holderOpen
    /\ UNCHANGED <<process, output, child, exitcode, script, written, pipe, childOpen>>

\* KeyboardInterrupt inside the try block: during Popen (process is still None)
\* or in the polling loop; 'except KeyboardInterrupt: pass' leads to the return.
Interrupt ==
    /\ UNCHANGED <<regvars, selvars, stderr, osvars>>
    /\ pc \in {"spawn", "poll", "read"}
    /\ intr' = intr \cup {IF pc = "spawn" THEN "spawn" ELSE "wait"}
    /\ pc' = "ret"
    /\ holderOpen' = IF pc = "spawn" THEN FALSE ELSE holderOpen
    /\ UNCHANGED <<process, output, result, child, exitcode, script, written, pipe,
                   childOpen>>

\* KeyboardInterrupt at the return statement, outside the try block.
InterruptReturn ==
    /\ UNCHANGED <<regvars, selvars, stderr, osvars>>
    /\ pc = "ret"
    /\ intr' = intr \cup {"ret"}
    /\ pc' = "raised"
    /\ result' = [kind |-> "KeyboardInterrupt", code |-> None, output |-> <<>>]
    /\ UNCHANGED <<process, output, child, exitcode, script, written, pipe,
                   childOpen, holderOpen>>

\* return process.poll(), output
Return ==
    /\ UNCHANGED <<regvars, selvars, stderr, osvars>>
    /\ pc = "ret"
    /\ IF process = None
       THEN /\ pc' = "raised"
            /\ result' = [kind |-> "AttributeError", code |-> None, output |-> <<>>]
       ELSE /\ pc' = "done"
            /\ result' = [kind |-> "returned", code |-> PollValue, output |-> output]
    /\ UNCHANGED <<process, output, intr, child, exitcode, script, written, pipe,
                   childOpen, holderOpen>>

\* The child writes its next line; it blocks while the pipe is full.
ChildBlocked == child = "running" /\ childOpen /\ script # <<>> /\ Len(pipe) >= PipeCap

ChildWrite ==
    /\ UNCHANGED <<regvars, selvars, stderr, osvars>>
    /\ child = "running"
    /\ childOpen
    /\ script # <<>>
    /\ Len(pipe) < PipeCap
    /\ pipe' = Append(pipe, Head(script).text)
    /\ written' = Append(written, Head(script).text)
    /\ script' = Tail(script)
    /\ UNCHANGED <<pc, process, output, result, intr, child, exitcode, childOpen,
                   holderOpen>>

\* The child closes its standard output before it exits.
ChildClose ==
    /\ UNCHANGED <<regvars, selvars, stderr, osvars>>
    /\ child = "running"
    /\ childOpen
    /\ script = <<>>
    /\ childOpen' = FALSE
    /\ UNCHANGED <<pc, process, output, result, intr, child, exitcode, script, written,
                   pipe, holderOpen>>

\* The child exits with some status; its descriptors are closed.
ChildExit ==
    /\ UNCHANGED <<regvars, selvars, stderr, osvars>>
    /\ child = "running"
    /\ script = <<>>
    /\ child' = "exited"
    /\ exitcode' \in ExitCodes
    /\ childOpen' = FALSE
    /\ UNCHANGED <<pc, process, output, result, intr, script, written, pipe, holderOpen>>

\* The process that inherited the write end closes it (or exits).
HolderClose ==
    /\ UNCHANGED <<regvars, selvars, stderr, osvars>>
    /\ child \in {"running", "exited"}
    /\ holderOpen
    /\ holderOpen' = FALSE
    /\ UNCHANGED <<pc, process, output, result, intr, child, exitcode, script, written,
                   pipe, childOpen>>

Runner == Popen \/ PopenFails \/ PopenBadStderr \/ Poll \/ Readline \/ ReadlineEOF \/ Return

CmdNext ==
    \/ Popen
    \/ PopenFails
    \/ PopenBadStderr
    \/ Poll
    \/ Readline
    \/ ReadlineEOF
    \/ Interrupt
    \/ InterruptReturn
    \/ Return
    \/ ChildWrite
    \/ ChildClose
    \/ ChildExit
    \/ HolderClose

(***************************************************************************)
(* Select: the readiness waiter.  Time is counted in ticks of 0.05s.       *)
(***************************************************************************)
Slice == 2         \* selector.select(timeout=0.1): 0.1s is two ticks

\* "sock": an open socket; "closedfd": the number of a descriptor that is not
\* open; "closedobj": a file object that has been closed.
Channels == {"sock", "closedfd", "closedobj"}
Timeouts == (0 - 1)..MaxTimeout
Never == 0 - 1

\* rds as EVENT_READ then wrts as EVENT_WRITE: the order of the two for loops.
Wanted == [i \in 1..(Len(rds) + Len(wrts)) |->
              IF i <= Len(rds) THEN <<rds[i], "read">> ELSE <<wrts[i - Len(rds)], "write">>]

\* selector.register(fileobj, events) with regs already registered: the file
\* object must have a descriptor (ValueError), must not be registered yet
\* (KeyError), and the OS must accept the descriptor (OSError).
RegisterOne(regs, ce) ==
    IF ce[1] = "closedobj" THEN "ValueError"
    ELSE IF \E j \in 1..Len(regs) : regs[j][1] = ce[1] THEN "KeyError"
    ELSE IF ce[1] = "closedfd" THEN "OSError"
    ELSE "ok"

RECURSIVE RegisterAll(_, _)
\* The two registration loops from the i-th wanted pair on: how they end, and
\* what is registered then.
RegisterAll(regs, i) ==
    IF i > Len(Wanted) THEN [status |-> "ok", regs |-> regs]
    ELSE IF RegisterOne(regs, Wanted[i]) # "ok"
         THEN [status |-> RegisterOne(regs, Wanted[i]), regs |-> regs]
         ELSE RegisterAll(Append(regs, Wanted[i]), i + 1)

NoSResult == [kind |-> "none", value |-> None]

\* Entry of Select, after rds and wrts have been made lists.
SelInit ==
    /\ spc = "start"
    /\ rds \in SeqsUpTo(Channels, MaxChans)
    /\ wrts \in SeqsUpTo(Channels, MaxChans)
    /\ timeout \in Timeouts
    /\ now = 0
    /\ start = 0
    /\ end = 0
    /\ res = None
    /\ selector = "none"
    /\ registered = <<>>
    /\ pending = ""
    /\ sresult = NoSResult
    /\ blocked = 0
    /\ readyAt \in {Never} \cup 0..MaxNow

\* end = start + timedelta(seconds=timeout)
Deadline(s, t) == s + t

\* start = now(); end = start + timeout; selector = DefaultSelector(); res = None
SelEnter ==
    /\ UNCHANGED <<regvars, cmdvars, osvars>>
    /\ spc = "start"
    /\ start' = now
    /\ end' = Deadline(now, timeout)
    /\ selector' = "open"
    /\ res' = None
    /\ spc' = "register"
    /\ UNCHANGED <<rds, wrts, timeout, now, registered, pending, sresult, blocked, readyAt>>

\* KeyboardInterrupt before the try block is entered: nothing catches it.
SelInterruptEarly ==
    /\ UNCHANGED <<regvars, cmdvars, osvars>>
    /\ spc = "start"
    /\ spc' = "raised"
    /\ sresult' = [kind |-> "KeyboardInterrupt", value |-> None]
    /\ UNCHANGED <<rds, wrts, timeout, now, start, end, res, selector, registered,
                   pending, blocked, readyAt>>

\* The two for loops that register the channels.
SelRegister ==
    /\ UNCHANGED <<regvars, cmdvars, osvars>>
    /\ spc = "register"
    /\ LET r == RegisterAll(<<>>, 1) IN
       /\ registered' = r.regs
       /\ IF r.status = "ok"
          THEN spc' = "loop" /\ pending' = pending
          ELSE spc' = "close" /\ pending' = r.status
    /\ UNCHANGED <<rds, wrts, timeout, now, start, end, res, selector, sresult,
                   blocked, readyAt>>

InWindowInclusive == now <= end

\* while datetime.now() < end
InWindow == now < end

SelLoop ==
    /\ UNCHANGED <<regvars, cmdvars, osvars>>
    /\ spc = "loop"
    /\ IF InWindow
       THEN spc' = "select" /\ pending' = pending
       ELSE spc' = "close" /\ pending' = "normal"
    /\ UNCHANGED <<rds, wrts, timeout, now, start, end, res, selector, registered,
                   sresult, blocked, readyAt>>

\* Some registered channel is ready at instant t.
ReadyBy(t) == registered # <<>> /\ readyAt # Never /\ readyAt <= t

\* How long selector.select(timeout=slice) blocks when called now.
BlockTime(slice) ==
    IF ReadyBy(now) THEN 0
    ELSE IF ReadyBy(now + slice) THEN readyAt - now
    ELSE slice

\* The timeout handed to selector.select
PollTimeout == Slice

\* res = selector.select(timeout=0.1); if res: break
SelPoll ==
    /\ UNCHANGED <<regvars, cmdvars, osvars>>
    /\ spc = "select"
    /\ LET d == BlockTime(PollTimeout)
           ready == ReadyBy(now + d) IN
       /\ now' = now + d
       /\ blocked' = blocked + d
       /\ res' = Some(IF ready THEN registered ELSE <<>>)
       /\ IF ready
          THEN spc' = "close" /\ pending' = "normal"
          ELSE spc' = "loop" /\ pending' = pending
    /\ UNCHANGED <<rds, wrts, timeout, start, end, selector, registered, sresult, readyAt>>

\* selector.select raises an OS error (a descriptor went bad meanwhile).
SelPollFails ==
    /\ UNCHANGED <<regvars, cmdvars, osvars>>
    /\ spc = "select"
    /\ spc' = "close"
    /\ pending' = "OSError"
    /\ UNCHANGED <<rds, wrts, timeout, now, start, end, res, selector, registered,
                   sresult, blocked, readyAt>>

\* KeyboardInterrupt inside the try block.
SelInterrupt ==
    /\ UNCHANGED <<regvars, cmdvars, osvars>>
    /\ spc \in {"register", "loop", "select"}
    /\ spc' = "close"
    /\ pending' = "KeyboardInterrupt"
    /\ UNCHANGED <<rds, wrts, timeout, now, start, end, res, selector, registered,
                   sresult, blocked, readyAt>>

\* What the except clauses and the final return make of the way the try block
\* was left: os.error and KeyboardInterrupt return None, a normal end returns
\* res, anything else propagates.
Outcome(how) ==
    IF how = "normal" THEN [kind |-> "returned", value |-> res]
    ELSE IF how \in {"OSError", "KeyboardInterrupt"} THEN [kind |-> "returned", value |-> None]
    ELSE [kind |-> how, value |-> None]

\* No finally clause: the selector is closed on the normal path only.
SelCloseNoFinally ==
    /\ UNCHANGED <<regvars, cmdvars, osvars>>
    /\ spc = "close"
    /\ selector' = IF pending = "normal" THEN "closed" ELSE selector
    /\ sresult' = Outcome(pending)
    /\ spc' = IF Outcome(pending).kind = "returned" THEN "done" ELSE "raised"
    /\ UNCHANGED <<rds, wrts, timeout, now, start, end, res, registered, pending,
                   blocked, readyAt>>

\* finally: selector.close(); then the return or the propagating exception.
SelClose ==
    /\ UNCHANGED <<regvars, cmdvars, osvars>>
    /\ spc = "close"
    /\ selector' = "closed"
    /\ sresult' = Outcome(pending)
    /\ spc' = IF Outcome(pending).kind = "returned" THEN "done" ELSE "raised"
    /\ UNCHANGED <<rds, wrts, timeout, now, start, end, res, registered, pending,
                   blocked, readyAt>>

\* Time passes while Select is not blocked in the selector (scheduling delay).
Delay ==
    /\ UNCHANGED <<regvars, cmdvars, osvars>>
    /\ spc \in {"start", "register", "loop", "select"}
    /\ now < MaxNow
    /\ now' = now + 1
    /\ UNCHANGED <<spc, rds, wrts, timeout, start, end, res, selector, registered,
                   pending, sresult, blocked, readyAt>>

SelNext ==
    \/ SelEnter
    \/ SelInterruptEarly
    \/ SelRegister
    \/ SelLoop
    \/ SelPoll
    \/ SelPollFails
    \/ SelInterrupt
    \/ SelClose
    \/ Delay

(***************************************************************************)
(* GetUserId, GetGroupId, SetProcessOwner, CloseDescriptor                 *)
(***************************************************************************)
Ids == {0, 1000}
UserNames == {"root", "monitor", "ghost", "mon\\0itor"}

\* A name the C library cannot be handed: it holds a NUL character.
Malformed(name) == name = "mon\\0itor"

\* The host identity databases (pwd, grp); "ghost" is in neither, and no
\* entry has a malformed name.
UserDb == [n \in {"root", "monitor"} |-> IF n = "root" THEN 0 ELSE 1000]
GroupDb == [n \in {"root", "monitor"} |-> IF n = "root" THEN 0 ELSE 1001]

\* An argument of GetUserId / GetGroupId: an integer or a symbolic name.
IdArgs == {[int |-> TRUE, id |-> i, name |-> ""] : i \in Ids \cup {1001}}
              \cup {[int |-> FALSE, id |-> 0, name |-> n] : n \in UserNames}
NoArg == [int |-> TRUE, id |-> 0, name |-> ""]

\* The handles CloseDescriptor is given: an object with a close method, a raw
\* integer descriptor.
Handles == {"fileobj", "fd"}

NoOCall == [op |-> "none", arg |-> NoArg, outcome |-> "none", ret |-> None,
            consulted |-> FALSE, handle |-> "", wasOpen |-> FALSE, error |-> FALSE,
            user |-> None, group |-> None, logger |-> FALSE, uidBefore |-> 0,
            gidBefore |-> 0, attempts |-> <<>>, failed |-> <<>>, log |-> <<>>]

\* The state of the process when the utilities are called.
OsInit ==
    /\ osname \in {"posix", "nt"}
    /\ uid \in Ids
    /\ gid \in Ids
    /\ fdOpen \in [Handles -> BOOLEAN]
    /\ ocall = NoOCall

\* except KeyError: pass, then return None
NotFound == [outcome |-> "returned", ret |-> None]

\* GetUserId / GetGroupId on database db.  getpwnam / getgrnam raise KeyError
\* for a name without entry and ValueError for a name with an embedded NUL;
\* only KeyError is caught.
GetId(db, x) ==
    IF x.int THEN [outcome |-> "returned", ret |-> Some(x.id), consulted |-> FALSE]
    ELSE IF osname = "posix"
    THEN IF Malformed(x.name)
         THEN [outcome |-> "ValueError", ret |-> None, consulted |-> FALSE]
         ELSE IF x.name \in DOMAIN db
         THEN [outcome |-> "returned", ret |-> Some(db[x.name]), consulted |-> TRUE]
         ELSE [outcome |-> NotFound.outcome, ret |-> NotFound.ret, consulted |-> TRUE]
    ELSE [outcome |-> "returned", ret |-> None, consulted |-> FALSE]

GetUserId(user) ==
    /\ UNCHANGED <<regvars, cmdvars, selvars>>
    /\ LET r == GetId(UserDb, user) IN
       ocall' = [NoOCall EXCEPT !.op = "GetUserId", !.arg = user, !.outcome = r.outcome,
                                !.ret = r.ret, !.consulted = r.consulted]
    /\ UNCHANGED <<osname, uid, gid, fdOpen>>

GetGroupId(group) ==
    /\ UNCHANGED <<regvars, cmdvars, selvars>>
    /\ LET r == GetId(GroupDb, group) IN
       ocall' = [NoOCall EXCEPT !.op = "GetGroupId", !.arg = group, !.outcome = r.outcome,
                                !.ret = r.ret, !.consulted = r.consulted]
    /\ UNCHANGED <<osname, uid, gid, fdOpen>>

CloseResultNoExcept(error) == IF error THEN "OSError" ELSE "returned"

\* except (IOError, OSError): pass
CloseResult(error) == "returned"

\* CloseDescriptor(fd).  fails: closing the open descriptor meets an I/O error.
\* fd.close() of a closed file object does nothing; os.close of a descriptor
\* that is not open raises OSError (EBADF).
CloseDescriptor(h, fails) ==
    /\ UNCHANGED <<regvars, cmdvars, selvars>>
    /\ LET error == IF fdOpen[h] THEN fails ELSE h = "fd" IN
       /\ ocall' = [NoOCall EXCEPT !.op = "CloseDescriptor", !.handle = h,
                                   !.wasOpen = fdOpen[h], !.error = error,
                                   !.outcome = CloseResult(error)]
       /\ \E stillOpen \in (IF fdOpen[h] /\ fails THEN BOOLEAN ELSE {FALSE}) :
             fdOpen' = [fdOpen EXCEPT ![h] = stillOpen]
    /\ UNCHANGED <<osname, uid, gid>>

\* os.setuid(u) by a process with user id cur: root may take any id, others
\* only their own.
SetuidOk(u, cur) == cur = 0 \/ u = cur

\* os.setgid(g) by a process with user id curuid and group id curgid: changing
\* the group needs the privilege of root.
SetgidOk(g, curuid, curgid) == curuid = 0 \/ g = curgid

AttemptGroupUnlessUserFailed(userFailed) == ~userFailed

\* The group-id change has its own try block, after that of the user id.
AttemptGroup(userFailed) == TRUE

\* SetProcessOwner(user, group, logger): os.setuid first, os.setgid second.
SetProcessOwner(user, group, logger) ==
    /\ UNCHANGED <<regvars, cmdvars, selvars>>
    /\ LET posix == osname = "posix"
           tryUser == posix /\ user # None
           userOk == tryUser /\ SetuidOk(user[1], uid)
           uid1 == IF userOk THEN user[1] ELSE uid
           tryGroup == posix /\ AttemptGroup(tryUser /\ ~userOk) /\ group # None
           groupOk == tryGroup /\ SetgidOk(group[1], uid1, gid)
           failed == (IF tryUser /\ ~userOk THEN <<"user">> ELSE <<>>)
                        \o (IF tryGroup /\ ~groupOk THEN <<"group">> ELSE <<>>)
       IN
       /\ uid' = uid1
       /\ gid' = IF groupOk THEN group[1] ELSE gid
       /\ ocall' = [NoOCall EXCEPT
                       !.op = "SetProcessOwner", !.outcome = "returned",
                       !.user = user, !.group = group, !.logger = logger,
                       !.uidBefore = uid, !.gidBefore = gid,
                       !.attempts = (IF tryUser THEN <<"setuid">> ELSE <<>>)
                                       \o (IF tryGroup THEN <<"setgid">> ELSE <<>>),
                       !.failed = failed,
                       !.log = IF logger THEN failed ELSE <<>>]
    /\ UNCHANGED <<osname, fdOpen>>

OptIds == {None} \cup {Some(i) : i \in Ids}

OsNext ==
    \/ \E x \in IdArgs : GetUserId(x)
    \/ \E x \in IdArgs : GetGroupId(x)
    \/ \E h \in Handles, f \in BOOLEAN : CloseDescriptor(h, f)
    \/ \E u \in OptIds, g \in OptIds, l \in BOOLEAN : SetProcessOwner(u, g, l)


(***************************************************************************)
(* Specifications: one per component, the others idle.                     *)
(***************************************************************************)
RegIdle ==
    /\ command = "run"
    /\ callbacks = [n \in Names |-> None]
    /\ parsers = None
    /\ trees = [t \in TreeIds |-> [n \in Names |-> 0]]
    /\ config = {}
    /\ last = NoCall

CmdIdle ==
    /\ stderr = TRUE
    /\ pc = "idle"
    /\ process = None
    /\ output = <<>>
    /\ result = NoResult
    /\ intr = {}
    /\ child = "none"
    /\ exitcode = 0
    /\ script = <<>>
    /\ written = <<>>
    /\ pipe = <<>>
    /\ childOpen = FALSE
    /\ holderOpen = FALSE

SelIdle ==
    /\ spc = "idle"
    /\ rds = <<>>
    /\ wrts = <<>>
    /\ timeout = 0
    /\ now = 0
    /\ start = 0
    /\ end = 0
    /\ res = None
    /\ selector = "none"
    /\ registered = <<>>
    /\ pending = ""
    /\ sresult = NoSResult
    /\ blocked = 0
    /\ readyAt = Never

OsIdle ==
    /\ osname = "posix"
    /\ uid = 0
    /\ gid = 0
    /\ fdOpen = [h \in Handles |-> TRUE]
    /\ ocall = NoOCall

RegSpecInit == RegInit /\ CmdIdle /\ SelIdle /\ OsIdle

RegSpec == RegSpecInit /\ [][RegNext]_vars

CmdSpecInit == CmdInit /\ RegIdle /\ SelIdle /\ OsIdle

CmdSpec == CmdSpecInit /\ [][CmdNext]_vars

\* The runner and the child are scheduled fairly; interrupts and the process
\* that inherited the pipe are under no obligation.
CmdFairSpec == CmdSpecInit /\ [][CmdNext]_vars
               /\ WF_vars(Runner)
               /\ WF_vars(ChildWrite)
               /\ WF_vars(ChildExit)

SelSpecInit == SelInit /\ RegIdle /\ CmdIdle /\ OsIdle

OsSpecInit == OsInit /\ RegIdle /\ CmdIdle /\ SelIdle

OsSpec == OsSpecInit /\ [][OsNext]_vars

SelSpec == SelSpecInit /\ [][SelNext]_vars

(***************************************************************************)
(* Properties of the sub-command registry (checked under RegSpec)          *)
(***************************************************************************)
RECURSIVE CountIn(_, _)
\* Sub-parsers named n in the trees 1..t.
CountIn(n, t) == IF t = 0 THEN 0 ELSE trees[t][n] + CountIn(n, t - 1)

SubParsers(n) == CountIn(n, MaxTrees)

\* C4: a rejected Register call (ExecutorError) changes neither the
\* name->handler mapping nor the host parser trees nor the --config options;
\* and no name ever has more than one sub-parser, so after Register(n, h1) has
\* succeeded and Register(n, h2) has failed, n keeps h1 and its one sub-parser.
C4_RejectedChangesNothing ==
    /\ [](\A n \in Names : SubParsers(n) <= 1)
    /\ [][last'.outcome = "ExecutorError"
            => /\ callbacks' = callbacks
               /\ trees' = trees
               /\ config' = config
               /\ parsers' = parsers]_vars

\* A duplicate registration with another handler has been rejected; the name
\* still has the first handler and one sub-parser.
C4_Witness ==
    /\ last.outcome = "ExecutorError"
    /\ Callable(last.handler)
    /\ last.name # command
    /\ callbacks[last.name] # None
    /\ callbacks[last.name] # Some(last.handler)
    /\ SubParsers(last.name) = 1

\* C5: the reserved primary command name is never a key of the mapping, a
\* Register call with that name always ends in the registration error whatever
\* the handler, and the mapping is append-only: an entry is never removed and
\* its handler never replaced.
C5_RegistryInvariants ==
    /\ [](callbacks[command] = None)
    /\ []((last.op = "register" /\ last.name = command) => last.outcome = "ExecutorError")
    /\ [][\A n \in Names : callbacks[n] # None => callbacks'[n] = callbacks[n]]_vars

\* The reserved name has been refused for a callable handler while another name
\* is registered.
C5_Witness ==
    /\ last.op = "register"
    /\ last.name = command
    /\ Callable(last.handler)
    /\ last.outcome = "ExecutorError"
    /\ \E n \in Names : callbacks[n] # None

\* What a successful Register(name, handler) in tree t leaves behind.
Succeeded(name) ==
    /\ last'.outcome = "ok"
    /\ callbacks' = [callbacks EXCEPT ![name] = Some(last'.handler)]
    /\ parsers # None
    /\ trees' = [trees EXCEPT ![parsers[1]][name] = @ + 1]
    /\ <<parsers[1], name>> \in config'
    /\ last'.ret = Some(<<parsers[1], name>>)

\* A Register call with a callable handler and a name that is neither reserved
\* nor registered.
FreshCall ==
    /\ last'.op = "register"
    /\ Callable(last'.handler)
    /\ last'.name # command
    /\ callbacks[last'.name] = None

C19_MappingMatchesParserTree ==
    \A n \in Names :
        callbacks[n] # None <=> (parsers # None /\ trees[parsers[1]][n] > 0)


(***************************************************************************)
(* Properties of the process runner                                        *)
(***************************************************************************)
Finished == pc \in {"done", "raised"}

\* C1: whenever Command returns a defined exit code, the child has terminated
\* and the returned output holds every non-empty line the child wrote.
C1_CompletionOrdering ==
    (pc = "done" /\ result.code # None)
        => (child = "exited" /\ result.output = Collect(written))

\* C7 (under fair scheduling of runner and child, no interrupt): a child blocked
\* on the full pipe is eventually unblocked, a running child eventually exits,
\* and, the child being the only holder of the pipe's write end, Command
\* eventually returns.
C7_NoPipeDeadlock ==
    /\ ChildBlocked ~> (~ChildBlocked \/ intr # {})
    /\ (child = "running") ~> (child = "exited" \/ intr # {})
    /\ (child = "running" /\ ~holderOpen) ~> Finished

\* The child has written more lines than the pipe holds, has exited, and
\* Command has returned all of them.
C7_Witness ==
    /\ pc = "done"
    /\ intr = {}
    /\ child = "exited"
    /\ Len(written) > PipeCap
    /\ result.output = Collect(written)

\* C8: once the child has terminated, Command eventually returns, whatever
\* the pipe does.
C8_ReturnsAfterChildExit == (child = "exited") ~> Finished

\* C9: a KeyboardInterrupt that arrives while Command waits on the spawned child
\* (in the poll/readline loop) never reaches the caller: the call goes to its
\* return statement and returns the exit status polled there together with the
\* lines collected up to the interrupt, which stem from a prefix of what the
\* child wrote.
C9_InterruptReturnsPartial ==
    /\ []((("wait" \in intr) /\ ("ret" \notin intr))
            => /\ pc \in {"ret", "done"}
               /\ pc = "done" =>
                    /\ result.kind = "returned"
                    /\ result.output = output
                    /\ \E k \in 0..Len(written) :
                          result.output = Collect(SubSeq(written, 1, k))
                    /\ result.code # None => child = "exited" /\ result.code = Some(exitcode))
    /\ [][(("wait" \in intr) /\ pc = "ret" /\ pc' = "done")
            => result' = [kind |-> "returned", code |-> PollValue, output |-> output]]_vars

\* Interrupted while the child was still running: Command returned None as
\* the exit code with a proper part of the child's lines.
C9_Witness ==
    /\ pc = "done"
    /\ "wait" \in intr
    /\ result.kind = "returned"
    /\ result.code = None
    /\ result.output # <<>>
    /\ result.output # Collect(written)

\* C14: when the OS refuses to create the child, Command propagates the
\* OSError; it returns neither a pair nor a sentinel, and whatever Command
\* returns, it returns for a child that was created.
C14_SpawnFailurePropagates ==
    /\ child = "refused" => (pc = "raised" /\ result.kind = "OSError")
    /\ result.kind = "returned" => (process # None /\ child \in {"running", "exited"})

\* The spawn has failed and the OSError has reached the caller.
C14_Witness ==
    /\ child = "refused"
    /\ pc = "raised"
    /\ result.kind = "OSError"

RECURSIVE IsSubseq(_, _)
\* a can be obtained from b by deleting elements.
IsSubseq(a, b) ==
    IF a = <<>> THEN TRUE
    ELSE IF b = <<>> THEN FALSE
    ELSE IF Head(a) = Head(b) THEN IsSubseq(Tail(a), Tail(b))
    ELSE IsSubseq(a, Tail(b))

Trimmed(ls) == [i \in 1..Len(ls) |-> Strip(ls[i])]

\* C17: the collected output (and so the returned one) is an order-preserving
\* subsequence of the trimmed lines the child wrote; none of its lines is
\* empty or starts or ends with a blank.
C17_OutputContent ==
    /\ IsSubseq(output, Trimmed(written))
    /\ \A i \in 1..Len(output) :
          /\ output[i] # <<>>
          /\ output[i][1] # "s"
          /\ output[i][Len(output[i])] # "s"
    /\ result.kind = "returned" => result.output = output

\* Command has returned after the child wrote a blank line and a padded line:
\* the blank one is dropped, the padded one is returned trimmed.
C17_Witness ==
    /\ pc = "done"
    /\ \E i \in 1..Len(written) : written[i] = <<>>
    /\ \E i \in 1..Len(written) : written[i] = <<"s", "b">>
    /\ \E i \in 1..Len(result.output) : result.output[i] = <<"b">>
    /\ Len(result.output) < Len(written)

\* C18: for a spawnable command and without interrupt, Command returns an
\* (exit code, lines) pair for either value of the merge flag; with the flag
\* true the lines of the child's error stream are in the same output sequence.
C18_StreamMergeFlag ==
    (Finished /\ intr = {} /\ child # "refused")
        => /\ result.kind = "returned"
           /\ IsSubseq(result.output, Trimmed(written))


(***************************************************************************)
(* Properties of the identity, privilege and descriptor utilities          *)
(* (checked under OsSpec)                                                  *)
(***************************************************************************)
\* The database the latest resolver call reads.
DbOf(op) == IF op = "GetUserId" THEN UserDb ELSE GroupDb

\* C13: on a POSIX host SetProcessOwner attempts os.setuid first and os.setgid
\* second, each whenever its argument is not None and whatever the other step
\* did; a failing step is logged iff a logger was supplied; the call returns
\* normally.  On any other host nothing is attempted.
C13_BestEffortSequence ==
    ocall.op = "SetProcessOwner" =>
        /\ ocall.outcome = "returned"
        /\ ocall.attempts =
              IF osname # "posix" THEN <<>>
              ELSE (IF ocall.user # None THEN <<"setuid">> ELSE <<>>)
                      \o (IF ocall.group # None THEN <<"setgid">> ELSE <<>>)
        /\ ocall.log = (IF ocall.logger THEN ocall.failed ELSE <<>>)
        /\ ("user" \in {ocall.failed[i] : i \in 1..Len(ocall.failed)})
              <=> /\ osname = "posix"
                  /\ ocall.user # None
                  /\ ~SetuidOk(ocall.user[1], ocall.uidBefore)

\* The user-id change failed, was logged, and the group-id change was still
\* attempted.
C13_Witness ==
    /\ ocall.op = "SetProcessOwner"
    /\ ocall.logger
    /\ ocall.attempts = <<"setuid", "setgid">>
    /\ ocall.failed = <<"user", "group">>
    /\ ocall.log = <<"user", "group">>

\* C15: GetUserId / GetGroupId return an integer unchanged without consulting
\* the database, the database's id for a known name and None for any other
\* name; they never raise.
C15_IdentityResolution ==
    ocall.op \in {"GetUserId", "GetGroupId"} =>
        /\ ocall.outcome = "returned"
        /\ ocall.arg.int => (ocall.ret = Some(ocall.arg.id) /\ ~ocall.consulted)
        /\ (~ocall.arg.int /\ osname = "posix" /\ ocall.arg.name \in DOMAIN DbOf(ocall.op))
              => ocall.ret = Some(DbOf(ocall.op)[ocall.arg.name])
        /\ (~ocall.arg.int /\ ocall.arg.name \notin DOMAIN DbOf(ocall.op))
              => ocall.ret = None

\* C16: CloseDescriptor returns normally whether or not the close met an
\* I/O-level failure, and a descriptor that was closed before the call is
\* closed after it.
C16_CloseTolerant ==
    ocall.op = "CloseDescriptor" =>
        /\ ocall.outcome = "returned"
        /\ ~ocall.wasOpen => ~fdOpen[ocall.handle]

\* A raw descriptor that was already closed is closed again: os.close fails,
\* the call returns.
C16_Witness ==
    /\ ocall.op = "CloseDescriptor"
    /\ ocall.handle = "fd"
    /\ ~ocall.wasOpen
    /\ ocall.error
    /\ ocall.outcome = "returned"
    /\ ~fdOpen["fd"]

\* C20: a root process on a POSIX host that calls SetProcessOwner with a
\* non-root user and a group ends with that user id and that group id, and no
\* step fails.
C20_FullPrivilegeDrop ==
    (/\ ocall.op = "SetProcessOwner"
     /\ osname = "posix"
     /\ ocall.uidBefore = 0
     /\ ocall.user # None /\ ocall.user # Some(0)
     /\ ocall.group # None)
        => /\ uid = ocall.user[1]
           /\ gid = ocall.group[1]
           /\ ocall.failed = <<>>

(***************************************************************************)
(* Properties of the readiness waiter (checked under SelSpec)              *)
(***************************************************************************)
\* The requested timeout as a duration: a negative one asks for no waiting.
Requested == IF timeout > 0 THEN timeout ELSE 0

\* C2 as stated: the total time Select spends blocked in the selector never
\* exceeds the requested timeout.
C2_Original == blocked <= Requested

\* C2 amended: the total time Select spends blocked in the selector exceeds the
\* requested timeout by less than one polling slice, and is zero when the
\* timeout is zero or negative.
C2_BlockingWithinSlice ==
    /\ blocked < Requested + Slice
    /\ timeout <= 0 => blocked = 0

\* Select has returned after blocking longer than a positive timeout that is
\* no multiple of the slice.
C2_Witness ==
    /\ spc = "done"
    /\ timeout > 0
    /\ timeout % Slice # 0
    /\ blocked > timeout

\* C3: when Select reaches its deadline with no error, no interrupt and no
\* channel ready, it returns an empty readiness result, not the failure
\* sentinel None.
C3_EmptyResultNotFailure ==
    (spc = "done" /\ pending = "normal" /\ res \in {None, Some(<<>>)})
        => (sresult.kind = "returned" /\ sresult.value = Some(<<>>))

\* C10: every failure of the selector during registration or polling, and
\* every interrupt, makes Select return None; nothing is raised.
C10_FailureReturnsSentinel ==
    (spc \in {"done", "raised"} /\ pending \notin {"", "normal"})
        => sresult = [kind |-> "returned", value |-> None]

\* C11: on every exit path of Select after the selector has been created
\* (result, deadline, registration or poll error, interrupt, propagating
\* exception) the selector is closed when the call returns or raises.
C11_SelectorReleased ==
    (spc \in {"done", "raised"} /\ selector # "none") => selector = "closed"

\* Select has left through a propagating exception with its selector closed.
C11_Witness ==
    /\ spc = "raised"
    /\ sresult.kind = "KeyError"
    /\ selector = "closed"

\* C12: when a registered channel becomes and stays ready strictly before the
\* deadline and neither error nor interrupt occurs, Select returns a non-empty
\* readiness result, no later than the deadline.
C12_Responsive ==
    (spc = "done" /\ pending = "normal" /\ registered # <<>>
        /\ readyAt # Never /\ readyAt < end)
        => (sresult.value = Some(registered) /\ now <= end)

====
